---------------------------- MODULE Spec2Model ----------------------------
(***************************************************************************)
(* Model of the GitHub issue analyzer: the standalone script               *)
(* (src/fetch_issues.py) and the package                                   *)
(* (src/github_issue_analyzer/fetch_github_issues.py).                     *)
(*                                                                         *)
(* The state is the state of one run of main(): the command line flags,    *)
(* main's position, the local variables of the fetch loop that is running, *)
(* the wall clock, and the requests the running call has issued so far     *)
(* with the answer each one got.  The remote API is the environment: every *)
(* request is answered by a nondeterministically chosen response.          *)
(***************************************************************************)
EXTENDS Integers, Sequences, FiniteSets, TLC

VARIABLES
    prog,             \* "script" (fetch_issues.py) or "package" (fetch_github_issues.py)
    open_only,        \* args.open_only
    no_pr,            \* args.no_pr
    no_comments,      \* args.no_comments
    pc,               \* position of the run
    page,             \* page counter of the running fetch loop
    issues,           \* fetch_issues' list while it runs, then main's issues
    i,                \* index (1-based) of main's current loop over issues
    filtered_issues,  \* main's list of issues that passed the PR-linkage check
    comments,         \* extract_comments' list while it runs, then main's comments
    processed_issues, \* main's processed_issues
    now,              \* wall clock, in ticks of 1/TicksPerSecond s
    reqs,             \* requests issued by the running (or last) call, with their answers
    rate_limits,      \* number of rate-limit answers given so far in the run
    full_pages,       \* number of full pages served so far in the run
    pr_queried,       \* issue numbers a PR-linkage search was requested for, in order
    pr_linked,        \* issue numbers for which a search reported a pull request
    comment_calls,    \* issue numbers extract_comments was called for, in order
    analysed,         \* the issue list the analyses and the report were run on
    sleeps,           \* time.sleep calls of the running (or last) call, in order
    duplicates,       \* main's duplicates, once detect_duplicates has run
    inconsistencies,  \* main's inconsistencies
    unaddressed,      \* main's unaddressed
    categories        \* main's categories

vars == << prog, open_only, no_pr, no_comments, pc, page, issues, i,
           filtered_issues, comments, processed_issues, now, reqs,
           rate_limits, full_pages, pr_queried, pr_linked, comment_calls,
           analysed, sleeps, duplicates, inconsistencies, unaddressed,
           categories >>

-----------------------------------------------------------------------------
(* Bounds of the model *)

\* The source serves at most this many full pages (of issues and of comments
\* together) in one run.
MaxFullPages == 2
\* At most this many records of the issue listing are not pull requests.
MaxIssues == 2
\* At most this many rate-limit answers in one run.
MaxRateLimits == 1

(* Program constants *)

\* per_page = 100
per_page == 100
\* The clock's resolution: the shortest sleep in the source is time.sleep(0.1).
TicksPerSecond == 10

\* Sizes of the pages the source answers with: empty, partial, full.
PageSizes == {0, per_page - 1, per_page}
\* Which records of an issue page are issues (the others are pull requests).
Patterns == {"none", "first", "ends"}
\* X-RateLimit-Reset, relative to the second the answer arrives in.
ResetOffsets == {-2, -1, 0}
\* HTTP error statuses other than 403.
ErrorStatuses == {422, 500}

-----------------------------------------------------------------------------
(* Helpers *)

\* 'pull_request' in issue
IsPullRequest(issue) == issue.pull_request

NotPullRequest(issue) == ~IsPullRequest(issue)

\* [issue for issue in issues if 'pull_request' not in issue]
FilterPullRequests(s) == SelectSeq(s, NotPullRequest)

\* Positions of a page of n records that hold issues.
IssuePositions(n, pat) ==
    CASE pat = "none"  -> {}
      [] pat = "first" -> {1} \cap (1..n)
      [] pat = "ends"  -> {1, n} \cap (1..n)

\* The n records the source serves as page p of the issue listing.
PageRecords(p, n, pat) ==
    [j \in 1..n |-> [number |-> (p - 1) * per_page + j,
                     pull_request |-> j \notin IssuePositions(n, pat)]]

\* The n records the source serves as page p of the comments of an issue.
CommentRecords(number, p, n) ==
    [j \in 1..n |-> [issue_number |-> number, id |-> (p - 1) * per_page + j]]

\* only_open_without_pr = args.open_only and args.no_pr
only_open_without_pr == open_only /\ no_pr

\* state = 'open' if only_open_without_pr else 'all'   (the script: 'all')
state == IF prog = "package" /\ only_open_without_pr THEN "open" ELSE "all"

\* int(time.time())
current_time == now \div TicksPerSecond

\* sleep_time = reset_time - current_time + 1
sleep_time(reset_time) == reset_time - current_time + 1

\* time.sleep(0.5) in the script's loops, time.sleep(0.1) in the package's
ThrottleDelay == IF prog = "script" THEN TicksPerSecond \div 2
                                    ELSE TicksPerSecond \div 10

\* A last-page test that never stops on a page that holds records.
IsLastPageNever(n) == n < 0

\* A last-page test that also stops on a full page.
IsLastPageInclusive(n) == n <= per_page

\* if len(page_issues) < per_page: break
IsLastPage(n) == n < per_page

\* One request of the running call and the answer it got.
Request(kind, number, acc, resp, records, pattern, reset) ==
    [kind |-> kind, number |-> number, page |-> page, state |-> state,
     at |-> now, acc |-> acc, resp |-> resp, records |-> records,
     pattern |-> pattern, reset |-> reset]

\* One time.sleep(length) of the running call: the function that sleeps, why,
\* and the number of requests the call has issued before it.
Sleep(where, why, after, length) ==
    [where |-> where, why |-> why, after |-> after, length |-> length]

-----------------------------------------------------------------------------
(* Text.  A str is the sequence of its characters. *)

\* Python's None where a str is expected: a value that no str equals.
None == << "None" >>

\* The elements of a sequence.
Range(s) == {s[k] : k \in 1..Len(s)}

\* [issue['number'] for issue in s]
Numbers(s) == [k \in 1..Len(s) |-> s[k].number]

\* x in s, for a list s
In(x, s) == \E k \in 1..Len(s) : s[k] = x

\* issue.get(key, default)
Get(issue, key, default) == IF key \in DOMAIN issue THEN issue[key] ELSE default

UpperCase == 
    << "A", "B", "C", "D", "E", "F", "G", "H", "I", "J", "K", "L", "M",
       "N", "O", "P", "Q", "R", "S", "T", "U", "V", "W", "X", "Y", "Z" >>
LowerCase == 
    << "a", "b", "c", "d", "e", "f", "g", "h", "i", "j", "k", "l", "m",
       "n", "o", "p", "q", "r", "s", "t", "u", "v", "w", "x", "y", "z" >>
Digits == {"0", "1", "2", "3", "4", "5", "6", "7", "8", "9"}

\* str.lower() of one character
LowerChar(c) ==
    IF In(c, UpperCase)
    THEN LowerCase[CHOOSE k \in 1..Len(UpperCase) : UpperCase[k] = c]
    ELSE c

\* str.lower()
lower(text) == [k \in 1..Len(text) |-> LowerChar(text[k])]

\* \w of a regular expression
IsWord(c) == In(c, UpperCase) \/ In(c, LowerCase) \/ c \in Digits \/ c = "_"

\* \s of a regular expression
IsSpace(c) == c \in {" ", "\t", "\n"}

IsWordOrSpace(c) == IsWord(c) \/ IsSpace(c)

RECURSIVE CollapseSpaces(_)
\* re.sub(r'\s+', ' ', text)
CollapseSpaces(text) ==
    IF text = << >> THEN << >>
    ELSE IF ~IsSpace(Head(text)) THEN << Head(text) >> \o CollapseSpaces(Tail(text))
    ELSE IF Len(text) > 1 /\ IsSpace(text[2]) THEN CollapseSpaces(Tail(text))
    ELSE << " " >> \o CollapseSpaces(Tail(text))

RECURSIVE lstrip(_)
lstrip(text) ==
    IF text # << >> /\ IsSpace(Head(text)) THEN lstrip(Tail(text)) ELSE text

RECURSIVE rstrip(_)
rstrip(text) ==
    IF text # << >> /\ IsSpace(text[Len(text)])
    THEN rstrip(SubSeq(text, 1, Len(text) - 1))
    ELSE text

\* str.strip()
strip(text) == rstrip(lstrip(text))

\* keyword in text, for two strs
Contains(keyword, text) ==
    \E k \in 0..(Len(text) - Len(keyword)) :
        SubSeq(text, k + 1, k + Len(keyword)) = keyword

\* any(keyword in text for keyword in keywords)
AnyIn(keywords, text) == \E k \in 1..Len(keywords) : Contains(keywords[k], text)

\* Label names and keywords of the analyses.
bug == << "b", "u", "g" >>
feature == << "f", "e", "a", "t", "u", "r", "e" >>
documentation == << "d", "o", "c", "u", "m", "e", "n", "t", "a", "t", "i", "o", "n" >>

\* The bug keywords without 'error'.
bug_keywords_without_error ==
    << << "b", "u", "g" >>,
       << "c", "r", "a", "s", "h" >>,
       << "f", "a", "i", "l" >>,
       << "b", "r", "o", "k", "e", "n" >>,
       << "n", "o", "t", " ", "w", "o", "r", "k", "i", "n", "g" >> >>

\* bug_keywords = ['bug', 'error', 'crash', 'fail', 'broken', 'not working']
bug_keywords ==
    << << "b", "u", "g" >>,
       << "e", "r", "r", "o", "r" >>,
       << "c", "r", "a", "s", "h" >>,
       << "f", "a", "i", "l" >>,
       << "b", "r", "o", "k", "e", "n" >>,
       << "n", "o", "t", " ", "w", "o", "r", "k", "i", "n", "g" >> >>

doc_keywords ==
    << << "d", "o", "c", "u", "m", "e", "n", "t" >>,
       << "d", "o", "c" >>,
       << "r", "e", "a", "d", "m", "e" >>,
       << "t", "u", "t", "o", "r", "i", "a", "l" >>,
       << "e", "x", "a", "m", "p", "l", "e" >> >>

coding_keywords ==
    << << "e", "x", "c", "e", "p", "t", "i", "o", "n" >>,
       << "s", "t", "a", "c", "k", " ", "t", "r", "a", "c", "e" >>,
       << "c", "o", "m", "p", "i", "l", "e" >>,
       << "s", "y", "n", "t", "a", "x" >>,
       << "r", "u", "n", "t", "i", "m", "e" >> >>

-----------------------------------------------------------------------------
(* The analyses.  An issue is a record; a field the source reads with
   issue.get is optional.  title and body are strs (or None), labels is a
   list of records with a name, created_at is the date (days since the epoch
   of the clock) and the time (second of the day) of 'YYYY-MM-DDTHH:MM:SSZ'. *)

\* simplified, of detect_duplicates: title.lower(), then
\* re.sub(r'[^\w\s]', '', title), then re.sub(r'\s+', ' ', simplified).strip()
simplified(title) ==
    strip(CollapseSpaces(SelectSeq(lower(title), IsWordOrSpace)))

RECURSIVE title_groups(_)
\* title_groups after the first loop of detect_duplicates: the keys of the
\* defaultdict in insertion order, each with its list of issues.
title_groups(list) ==
    IF list = << >> THEN << >>
    ELSE LET groups == title_groups(SubSeq(list, 1, Len(list) - 1))
             issue == list[Len(list)]
             title == simplified(Get(issue, "title", << >>))
         IN  IF \E k \in 1..Len(groups) : groups[k].title = title
             THEN [k \in 1..Len(groups) |->
                     IF groups[k].title = title
                     THEN [title |-> title, group |-> Append(groups[k].group, issue)]
                     ELSE groups[k]]
             ELSE Append(groups, [title |-> title, group |-> << issue >>])

\* A test that takes only groups of three or more issues.
IsLargeGroup(entry) == Len(entry.group) > 2

\* if len(group) > 1
IsDuplicateGroup(entry) == Len(entry.group) > 1

\* detect_duplicates(issues)
detect_duplicates(list) ==
    LET found == SelectSeq(title_groups(list), IsDuplicateGroup)
    IN  [k \in 1..Len(found) |->
            [title |-> found[k].title, issues |-> Numbers(found[k].group)]]

\* labels = [label['name'].lower() for label in issue.get('labels', [])]
labels(issue) ==
    LET names == Get(issue, "labels", << >>)
    IN  [k \in 1..Len(names) |-> lower(names[k].name)]

\* A test that takes either label for a conflict.
HasBugOrFeature(issue) == In(bug, labels(issue)) \/ In(feature, labels(issue))

\* if 'bug' in labels and 'feature' in labels
HasConflictingLabels(issue) == In(bug, labels(issue)) /\ In(feature, labels(issue))

\* An entry with a type in both programs.
InconsistencyTyped(issue) ==
    [issue |-> issue.number, type |-> "conflicting_labels",
     details |-> "Issue has both \"bug\" and \"feature\" labels"]

\* The entry detect_inconsistencies appends for an issue.
Inconsistency(issue) ==
    IF prog = "script"
    THEN [issue |-> issue.number, type |-> "conflicting_labels",
          details |-> "Issue has both \"bug\" and \"feature\" labels"]
    ELSE [issue |-> issue.number,
          details |-> "Issue has both \"bug\" and \"feature\" labels"]

\* A detect_inconsistencies that does not look at the first issue of the list.
detect_inconsistencies_after_first(list) ==
    LET found == SelectSeq(Tail(list), HasConflictingLabels)
    IN  [k \in 1..Len(found) |-> Inconsistency(found[k])]

\* detect_inconsistencies(issues)
detect_inconsistencies(list) ==
    LET found == SelectSeq(list, HasConflictingLabels)
    IN  [k \in 1..Len(found) |-> Inconsistency(found[k])]

SecondsPerDay == 86400

\* datetime.strptime(created_at, "%Y-%m-%dT%H:%M:%SZ"), in ticks of the clock
strptime(created_at) ==
    (created_at.date * SecondsPerDay + created_at.time) * TicksPerSecond

\* timedelta.days: the whole days of a difference of two datetimes (floor)
days(delta) == delta \div (SecondsPerDay * TicksPerSecond)

\* A test that takes an issue of 365 whole days for old.
IsOldFrom365(days_open) == days_open >= 365

\* if days_open > 365
IsOld(days_open) == days_open > 365

RECURSIVE unaddressed_errors(_, _, _, _)
\* The loop of detect_unaddressed_errors over list, with unaddressed = found so
\* far.  Every datetime.utcnow() reads the clock: the first reading is
\* utcnow, each later one is tick later than the one before.  The package
\* reads the clock once for an issue (days_open); the script reads it for the
\* test and again for age_days.  The result is the list and the clock after
\* the last reading.
unaddressed_errors(list, found, utcnow, tick) ==
    IF list = << >> THEN [unaddressed |-> found, utcnow |-> utcnow]
    ELSE LET issue == Head(list)
         IN  IF /\ "state" \in DOMAIN issue
                /\ issue.state = "open"
                /\ "created_at" \in DOMAIN issue
             THEN LET created_date == strptime(issue.created_at)
                      days_open == days(utcnow - created_date)
                  IN  IF ~IsOld(days_open)
                      THEN unaddressed_errors(Tail(list), found, utcnow + tick, tick)
                      ELSE IF prog = "script"
                      THEN unaddressed_errors(
                               Tail(list),
                               Append(found,
                                      [issue |-> issue.number,
                                       type |-> "old_unaddressed",
                                       age_days |-> days(utcnow + tick - created_date)]),
                               utcnow + 2 * tick, tick)
                      ELSE unaddressed_errors(
                               Tail(list),
                               Append(found, [issue |-> issue.number,
                                              days_open |-> days_open]),
                               utcnow + tick, tick)
             ELSE unaddressed_errors(Tail(list), found, utcnow, tick)

\* detect_unaddressed_errors(issues), called when the clock reads utcnow
detect_unaddressed_errors(list, utcnow, tick) ==
    unaddressed_errors(list, << >>, utcnow, tick)

\* title = issue.get('title', '').lower() if issue.get('title') else ''
\* body = issue.get('body', '').lower() if issue.get('body') else ''
Text(issue, key) ==
    IF Get(issue, key, None) \notin {None, << >>} THEN lower(issue[key]) ELSE << >>

\* A bug test that does not look at the body.
IsBugByTitle(issue) ==
    In(bug, labels(issue)) \/ AnyIn(bug_keywords, Text(issue, "title"))

\* if 'bug' in labels or any(keyword in title ...) or any(keyword in body ...)
IsBug(issue) ==
    \/ In(bug, labels(issue))
    \/ AnyIn(bug_keywords, Text(issue, "title"))
    \/ AnyIn(bug_keywords, Text(issue, "body"))

\* if 'documentation' in labels or any(keyword in title ...) or any(... body ...)
IsDocumentation(issue) ==
    \/ In(documentation, labels(issue))
    \/ AnyIn(doc_keywords, Text(issue, "title"))
    \/ AnyIn(doc_keywords, Text(issue, "body"))

\* if any(keyword in title ...) or any(keyword in body ...)
IsCodingError(issue) ==
    \/ AnyIn(coding_keywords, Text(issue, "title"))
    \/ AnyIn(coding_keywords, Text(issue, "body"))

\* categorize_issues(issues)
categorize_issues(list) ==
    [bugs |-> Numbers(SelectSeq(list, IsBug)),
     documentation |-> Numbers(SelectSeq(list, IsDocumentation)),
     coding_errors |-> Numbers(SelectSeq(list, IsCodingError))]

-----------------------------------------------------------------------------
(* Initial state: main() has parsed its arguments and fetch_issues starts. *)

Init ==
    /\ prog \in {"script", "package"}
    /\ open_only \in BOOLEAN
    /\ no_pr \in BOOLEAN
    /\ no_comments \in BOOLEAN
    /\ prog = "script" => ~open_only /\ ~no_pr /\ ~no_comments
    /\ pc = "fetch_issues"
    /\ page = 1
    /\ issues = << >>
    /\ i = 1
    /\ filtered_issues = << >>
    /\ comments = << >>
    /\ processed_issues = << >>
    /\ now = 0
    /\ reqs = << >>
    /\ rate_limits = 0
    /\ full_pages = 0
    /\ pr_queried = << >>
    /\ pr_linked = {}
    /\ comment_calls = << >>
    /\ analysed = << >>
    /\ sleeps = << >>
    /\ duplicates = << >>
    /\ inconsistencies = << >>
    /\ unaddressed = << >>
    /\ categories = << >>

-----------------------------------------------------------------------------
(* fetch_issues: one action per answer to the request of the current page. *)

\* A fetch_issues that returns its list as accumulated.
FetchIssuesReturnUnfiltered(acc) == acc

\* What fetch_issues returns once its loop has ended with list acc.
FetchIssuesReturn(acc) == IF prog = "script" THEN FilterPullRequests(acc) ELSE acc

\* A count of the records of a page that are left after pull-request filtering.
LenFiltered(page_issues) == Len(FilterPullRequests(page_issues))

\* len(page_issues), of the page as the source served it
LenPage(page_issues) == Len(page_issues)

\* 200 with a JSON list of n records.
FetchIssuesPage(n, pat) ==
    /\ pc = "fetch_issues"
    /\ n = per_page => full_pages < MaxFullPages
    /\ full_pages' = IF n = per_page THEN full_pages + 1 ELSE full_pages
    /\ n = 0 => pat = "none"
    /\ LET page_issues == PageRecords(page, n, pat)
           kept == IF prog = "script" THEN page_issues
                                      ELSE FilterPullRequests(page_issues)
           acc == IF page_issues = << >> THEN issues ELSE issues \o kept
       IN  /\ Len(FilterPullRequests(issues \o page_issues)) <= MaxIssues
           /\ reqs' = Append(reqs, Request("issues", 0, Len(issues), "ok", n, pat, 0))
           /\ IF page_issues = << >> \/ IsLastPage(LenPage(page_issues))
              THEN /\ issues' = FetchIssuesReturn(acc)
                   /\ pc' = "fetched"
                   /\ UNCHANGED << page, now, sleeps >>
              ELSE /\ issues' = acc
                   /\ page' = page + 1
                   /\ now' = now + ThrottleDelay
                   /\ sleeps' = Append(sleeps, Sleep("fetch_issues", "throttle",
                                                     Len(reqs'), ThrottleDelay))
                   /\ pc' = pc
    /\ UNCHANGED << prog, duplicates, inconsistencies, unaddressed,
                    categories, open_only, no_pr, no_comments, i,
                    filtered_issues, comments, processed_issues, rate_limits,
                    pr_queried, pr_linked, comment_calls, analysed >>

\* A fetch_issues that goes on to the next page after a rate-limit answer.
FetchIssuesRateLimitedSkipsPage(d) ==
    /\ pc = "fetch_issues"
    /\ rate_limits < MaxRateLimits
    /\ rate_limits' = rate_limits + 1
    /\ LET reset_time == current_time + d
       IN  /\ reqs' = Append(reqs, Request("issues", 0, Len(issues),
                                            "rate_limited", 0, "none", reset_time))
           /\ IF sleep_time(reset_time) >= 0
              THEN /\ now' = now + sleep_time(reset_time) * TicksPerSecond
                   /\ sleeps' = Append(sleeps,
                                       Sleep("fetch_issues", "rate_limit", Len(reqs'),
                                             sleep_time(reset_time) * TicksPerSecond))
                   /\ page' = page + 1
                   /\ pc' = pc
              ELSE /\ pc' = "crash"
                   /\ UNCHANGED << now, sleeps, page >>
    /\ UNCHANGED << prog, duplicates, inconsistencies, unaddressed,
                    categories, open_only, no_pr, no_comments, issues,
                    i, filtered_issues, comments, processed_issues,
                    pr_queried, pr_linked, comment_calls, analysed, full_pages
                    >>

\* 403 with X-RateLimit-Remaining: 0 and X-RateLimit-Reset: current_time + d.
\* time.sleep raises ValueError for a negative length; no except clause of
\* either fetch_issues catches it.
FetchIssuesRateLimited(d) ==
    /\ pc = "fetch_issues"
    /\ rate_limits < MaxRateLimits
    /\ rate_limits' = rate_limits + 1
    /\ LET reset_time == current_time + d
       IN  /\ reqs' = Append(reqs, Request("issues", 0, Len(issues),
                                            "rate_limited", 0, "none", reset_time))
           /\ IF sleep_time(reset_time) >= 0
              THEN /\ now' = now + sleep_time(reset_time) * TicksPerSecond
                   /\ sleeps' = Append(sleeps,
                                       Sleep("fetch_issues", "rate_limit", Len(reqs'),
                                             sleep_time(reset_time) * TicksPerSecond))
                   /\ pc' = pc
              ELSE /\ pc' = "crash"
                   /\ UNCHANGED << now, sleeps >>
    /\ UNCHANGED << prog, duplicates, inconsistencies, unaddressed,
                    categories, open_only, no_pr, no_comments, page, issues,
                    i, filtered_issues, comments, processed_issues,
                    pr_queried, pr_linked, comment_calls, analysed, full_pages
                    >>

\* 403 without the rate-limit signal: sys.exit(1) in the script,
\* "return issues" in the package.
FetchIssuesForbidden ==
    /\ pc = "fetch_issues"
    /\ reqs' = Append(reqs, Request("issues", 0, Len(issues), "forbidden", 0, "none", 0))
    /\ pc' = IF prog = "script" THEN "exit" ELSE "fetched"
    /\ UNCHANGED << sleeps, prog, duplicates, inconsistencies, unaddressed,
                    categories, open_only, no_pr, no_comments, page, issues,
                    i, filtered_issues, comments, processed_issues, now,
                    rate_limits, pr_queried, pr_linked, comment_calls,
                    analysed, full_pages >>

\* A fetch_issues for which every error status is fatal in the script.
FetchIssuesHTTPErrorFatal(status) ==
    /\ pc = "fetch_issues"
    /\ reqs' = Append(reqs, Request("issues", 0, Len(issues), "http_error", 0, "none", status))
    /\ IF prog = "script"
       THEN pc' = "exit" /\ issues' = issues
       ELSE pc' = "fetched" /\ issues' = FetchIssuesReturn(issues)
    /\ UNCHANGED << sleeps, prog, duplicates, inconsistencies, unaddressed,
                    categories, open_only, no_pr, no_comments, page, i,
                    filtered_issues, comments, processed_issues, now,
                    rate_limits, pr_queried, pr_linked, comment_calls,
                    analysed, full_pages >>

\* Another error status: raise_for_status() raises HTTPError.  The script
\* breaks on 422 and exits otherwise; the package breaks.
FetchIssuesHTTPError(status) ==
    /\ pc = "fetch_issues"
    /\ reqs' = Append(reqs, Request("issues", 0, Len(issues), "http_error", 0, "none", status))
    /\ IF prog = "script" /\ status # 422
       THEN pc' = "exit" /\ issues' = issues
       ELSE pc' = "fetched" /\ issues' = FetchIssuesReturn(issues)
    /\ UNCHANGED << sleeps, prog, duplicates, inconsistencies, unaddressed,
                    categories, open_only, no_pr, no_comments, page, i,
                    filtered_issues, comments, processed_issues, now,
                    rate_limits, pr_queried, pr_linked, comment_calls,
                    analysed, full_pages >>

\* requests.get raises a RequestException (connection error, timeout).
FetchIssuesRequestException ==
    /\ pc = "fetch_issues"
    /\ reqs' = Append(reqs, Request("issues", 0, Len(issues), "exception", 0, "none", 0))
    /\ pc' = IF prog = "script" THEN "exit" ELSE "fetched"
    /\ UNCHANGED << sleeps, prog, duplicates, inconsistencies, unaddressed,
                    categories, open_only, no_pr, no_comments, page, issues,
                    i, filtered_issues, comments, processed_issues, now,
                    rate_limits, pr_queried, pr_linked, comment_calls,
                    analysed, full_pages >>

\* 200 with a body that is not JSON: response.json() raises.  The script exits
\* (it catches RequestException and json.JSONDecodeError).  The package catches
\* only RequestException: requests >= 2.27 raises a subclass of it (caught,
\* break), an older requests raises a plain ValueError (not caught).
FetchIssuesBadJson(caught) ==
    /\ pc = "fetch_issues"
    /\ prog = "script" => caught
    /\ reqs' = Append(reqs, Request("issues", 0, Len(issues), "bad_json", 0, "none", 0))
    /\ pc' = IF prog = "script" THEN "exit"
             ELSE IF caught THEN "fetched" ELSE "crash"
    /\ UNCHANGED << sleeps, prog, duplicates, inconsistencies, unaddressed,
                    categories, open_only, no_pr, no_comments, page, issues,
                    i, filtered_issues, comments, processed_issues, now,
                    rate_limits, pr_queried, pr_linked, comment_calls,
                    analysed, full_pages >>

FetchIssues ==
    \/ \E n \in PageSizes, pat \in Patterns : FetchIssuesPage(n, pat)
    \/ \E d \in ResetOffsets : FetchIssuesRateLimited(d)
    \/ FetchIssuesForbidden
    \/ \E status \in ErrorStatuses : FetchIssuesHTTPError(status)
    \/ FetchIssuesRequestException
    \/ \E caught \in BOOLEAN : FetchIssuesBadJson(caught)

-----------------------------------------------------------------------------
(* main, after fetch_issues has returned *)

\* A main that goes on with the list it got, empty or not.
MainAfterFetchGoesOn ==
    /\ pc = "fetched"
    /\ IF prog = "package" /\ no_pr /\ ~open_only
       THEN pc' = "check_pr"
       ELSE pc' = "process"
    /\ i' = 1
    /\ filtered_issues' = << >>
    /\ processed_issues' = << >>
    /\ UNCHANGED << sleeps, prog, duplicates, inconsistencies, unaddressed,
                    categories, open_only, no_pr, no_comments, page, issues,
                    comments, now, reqs, rate_limits, pr_queried, pr_linked,
                    comment_calls, analysed, full_pages >>

\* if not issues: print("No issues found."); return
\* if args.no_pr and not args.open_only: (the package only) start the filter
MainAfterFetch ==
    /\ pc = "fetched"
    /\ IF issues = << >>
       THEN pc' = "no_issues"
       ELSE IF prog = "package" /\ no_pr /\ ~open_only
            THEN pc' = "check_pr"
            ELSE pc' = "process"
    /\ i' = 1
    /\ filtered_issues' = << >>
    /\ processed_issues' = << >>
    /\ UNCHANGED << sleeps, prog, duplicates, inconsistencies, unaddressed,
                    categories, open_only, no_pr, no_comments, page, issues,
                    comments, now, reqs, rate_limits, pr_queried, pr_linked,
                    comment_calls, analysed, full_pages >>

\* Answers the search API gives to a PR-linkage query.
SearchResponses == {"ok", "rate_limited", "http_error", "exception", "bad_json"}

\* A check_issue_has_pr that takes a failed search for a linked pull request.
check_issue_has_pr_unless_ok(resp, total_count) ==
    resp # "ok" \/ total_count > 0

\* check_issue_has_pr: status 200 gives total_count > 0; any other status falls
\* through to "return False"; any exception is swallowed by the bare except.
check_issue_has_pr(resp, total_count) ==
    IF resp = "ok" THEN total_count > 0 ELSE FALSE

\* One iteration of main's filter loop: the search request for issues[i], its
\* answer (for a 403 with X-RateLimit-Remaining: 0, X-RateLimit-Reset is
\* current_time + d), the append to filtered_issues and the sleep of 0.1 s.
CheckIssueHasPr(resp, total_count, d) ==
    /\ pc = "check_pr"
    /\ i <= Len(issues)
    /\ resp # "ok" => total_count = 0
    /\ resp # "rate_limited" => d = 0
    /\ LET issue == issues[i]
           has_pr == check_issue_has_pr(resp, total_count)
       IN  /\ reqs' = << Request("search", issue.number, Len(filtered_issues),
                                 resp, total_count, "none",
                                 IF resp = "rate_limited"
                                 THEN current_time + d ELSE 0) >>
           /\ pr_queried' = Append(pr_queried, issue.number)
           /\ pr_linked' = IF resp = "ok" /\ total_count > 0
                           THEN pr_linked \cup {issue.number} ELSE pr_linked
           /\ filtered_issues' = IF ~has_pr THEN Append(filtered_issues, issue)
                                            ELSE filtered_issues
    /\ now' = now + TicksPerSecond \div 10
    /\ sleeps' = << Sleep("main", "throttle", 1, TicksPerSecond \div 10) >>
    /\ i' = i + 1
    /\ UNCHANGED << prog, duplicates, inconsistencies, unaddressed,
                    categories, open_only, no_pr, no_comments, pc, page,
                    issues, comments, processed_issues, rate_limits,
                    comment_calls, analysed, full_pages >>

\* issues = filtered_issues, after the filter loop
FilterDone ==
    /\ pc = "check_pr"
    /\ i > Len(issues)
    /\ issues' = filtered_issues
    /\ pc' = "process"
    /\ i' = 1
    /\ UNCHANGED << sleeps, prog, duplicates, inconsistencies, unaddressed,
                    categories, open_only, no_pr, no_comments, page,
                    filtered_issues, comments, processed_issues, now, reqs,
                    rate_limits, pr_queried, pr_linked, comment_calls,
                    analysed, full_pages >>

\* The rest of one iteration of main's processing loop once the comments of
\* issues[i] are known: the append to processed_issues (and, in the script,
\* the sleep of 0.1 s).
AppendProcessed(result) ==
    /\ comments' = result
    /\ processed_issues' = Append(processed_issues,
                                  [number |-> issues[i].number,
                                   comments_count |-> Len(result)])
    /\ i' = i + 1
    /\ pc' = "process"
    /\ IF prog = "script"
       THEN /\ now' = now + TicksPerSecond \div 10
            /\ sleeps' = Append(sleeps, Sleep("main", "throttle", Len(reqs'),
                                              TicksPerSecond \div 10))
       ELSE UNCHANGED << now, sleeps >>

\* A processing loop that calls extract_comments whatever the flags are.
ProcessIssueAlwaysExtracts ==
    /\ pc = "process"
    /\ i <= Len(issues)
    /\ pc' = "extract_comments"
    /\ page' = 1
    /\ comments' = << >>
    /\ reqs' = << >>
    /\ sleeps' = << >>
    /\ comment_calls' = Append(comment_calls, issues[i].number)
    /\ UNCHANGED << processed_issues, i, now >>
    /\ UNCHANGED << prog, duplicates, inconsistencies, unaddressed,
                    categories, open_only, no_pr, no_comments, issues,
                    filtered_issues, rate_limits, pr_queried, pr_linked,
                    analysed, full_pages >>

\* Start of one iteration of main's processing loop: with --no-comments the
\* iteration is complete, otherwise extract_comments is called.
ProcessIssue ==
    /\ pc = "process"
    /\ i <= Len(issues)
    /\ IF prog = "package" /\ no_comments
       THEN /\ AppendProcessed(<< >>)
            /\ UNCHANGED << page, reqs, comment_calls >>
       ELSE /\ pc' = "extract_comments"
            /\ page' = 1
            /\ comments' = << >>
            /\ reqs' = << >>
            /\ sleeps' = << >>
            /\ comment_calls' = Append(comment_calls, issues[i].number)
            /\ UNCHANGED << processed_issues, i, now >>
    /\ UNCHANGED << prog, duplicates, inconsistencies, unaddressed,
                    categories, open_only, no_pr, no_comments, issues,
                    filtered_issues, rate_limits, pr_queried, pr_linked,
                    analysed, full_pages >>

\* A main that goes on to the analyses from inside its processing loop.
DetectDuplicatesEarly ==
    /\ pc = "process"
    /\ duplicates' = detect_duplicates(issues)
    /\ pc' = "detect_inconsistencies"
    /\ UNCHANGED << prog, open_only, no_pr, no_comments, page, issues, i,
                    filtered_issues, comments, processed_issues, now, reqs,
                    rate_limits, full_pages, pr_queried, pr_linked,
                    comment_calls, analysed, sleeps, inconsistencies,
                    unaddressed, categories >>

\* After the processing loop: duplicates = detect_duplicates(issues)
DetectDuplicates ==
    /\ pc = "process"
    /\ i > Len(issues)
    /\ duplicates' = detect_duplicates(issues)
    /\ pc' = "detect_inconsistencies"
    /\ UNCHANGED << prog, open_only, no_pr, no_comments, page, issues, i,
                    filtered_issues, comments, processed_issues, now, reqs,
                    rate_limits, full_pages, pr_queried, pr_linked,
                    comment_calls, analysed, sleeps, inconsistencies,
                    unaddressed, categories >>

\* inconsistencies = detect_inconsistencies(issues)
DetectInconsistencies ==
    /\ pc = "detect_inconsistencies"
    /\ inconsistencies' = detect_inconsistencies(issues)
    /\ pc' = "detect_unaddressed_errors"
    /\ UNCHANGED << prog, open_only, no_pr, no_comments, page, issues, i,
                    filtered_issues, comments, processed_issues, now, reqs,
                    rate_limits, full_pages, pr_queried, pr_linked,
                    comment_calls, analysed, sleeps, duplicates, unaddressed,
                    categories >>

\* The time between two readings of the clock, in ticks.
ClockSteps == {0, 1}

\* unaddressed = detect_unaddressed_errors(issues)
DetectUnaddressedErrors(tick) ==
    /\ pc = "detect_unaddressed_errors"
    /\ LET result == detect_unaddressed_errors(issues, now, tick)
       IN  /\ unaddressed' = result.unaddressed
           /\ now' = result.utcnow
    /\ pc' = "categorize_issues"
    /\ UNCHANGED << prog, open_only, no_pr, no_comments, page, issues, i,
                    filtered_issues, comments, processed_issues, reqs,
                    rate_limits, full_pages, pr_queried, pr_linked,
                    comment_calls, analysed, sleeps, duplicates,
                    inconsistencies, categories >>

\* categories = categorize_issues(issues)
CategorizeIssues ==
    /\ pc = "categorize_issues"
    /\ categories' = categorize_issues(issues)
    /\ pc' = "report"
    /\ UNCHANGED << prog, open_only, no_pr, no_comments, page, issues, i,
                    filtered_issues, comments, processed_issues, now, reqs,
                    rate_limits, full_pages, pr_queried, pr_linked,
                    comment_calls, analysed, sleeps, duplicates,
                    inconsistencies, unaddressed >>

\* The steps of main after its processing loop, up to the report.
AnalysisSteps ==
    {"detect_inconsistencies", "detect_unaddressed_errors",
     "categorize_issues", "report"}

\* After the analyses: the report, printed from the analyses' results.
Report ==
    /\ pc = "report"
    /\ analysed' = issues
    /\ pc' = "done"
    /\ UNCHANGED << sleeps, prog, duplicates, inconsistencies, unaddressed,
                    categories, open_only, no_pr, no_comments, page, issues,
                    i, filtered_issues, comments, processed_issues, now, reqs,
                    rate_limits, pr_queried, pr_linked, comment_calls,
                    full_pages >>

-----------------------------------------------------------------------------
(* extract_comments: one action per answer to the request of the current page *)

\* 200 with a JSON list of n comments.
ExtractCommentsPage(n) ==
    /\ pc = "extract_comments"
    /\ n = per_page => full_pages < MaxFullPages
    /\ full_pages' = IF n = per_page THEN full_pages + 1 ELSE full_pages
    /\ LET page_comments == CommentRecords(issues[i].number, page, n)
           acc == comments \o page_comments
       IN  /\ reqs' = Append(reqs, Request("comments", issues[i].number,
                                            Len(comments), "ok", n, "none", 0))
           /\ IF page_comments = << >> \/ IsLastPage(Len(page_comments))
              THEN /\ AppendProcessed(acc)
                   /\ page' = page
              ELSE /\ comments' = acc
                   /\ page' = page + 1
                   /\ now' = now + ThrottleDelay
                   /\ sleeps' = Append(sleeps,
                                       Sleep("extract_comments", "throttle",
                                             Len(reqs'), ThrottleDelay))
                   /\ UNCHANGED << pc, processed_issues, i >>
    /\ UNCHANGED << prog, duplicates, inconsistencies, unaddressed,
                    categories, open_only, no_pr, no_comments, issues,
                    filtered_issues, rate_limits, pr_queried, pr_linked,
                    comment_calls, analysed >>

\* 403 with X-RateLimit-Remaining: 0 and X-RateLimit-Reset: current_time + d.
ExtractCommentsRateLimited(d) ==
    /\ pc = "extract_comments"
    /\ rate_limits < MaxRateLimits
    /\ rate_limits' = rate_limits + 1
    /\ LET reset_time == current_time + d
       IN  /\ reqs' = Append(reqs, Request("comments", issues[i].number,
                                            Len(comments), "rate_limited", 0,
                                            "none", reset_time))
           /\ IF sleep_time(reset_time) >= 0
              THEN /\ now' = now + sleep_time(reset_time) * TicksPerSecond
                   /\ sleeps' = Append(sleeps,
                                       Sleep("extract_comments", "rate_limit", Len(reqs'),
                                             sleep_time(reset_time) * TicksPerSecond))
                   /\ pc' = pc
              ELSE /\ pc' = "crash"
                   /\ UNCHANGED << now, sleeps >>
    /\ UNCHANGED << prog, duplicates, inconsistencies, unaddressed,
                    categories, open_only, no_pr, no_comments, page, issues,
                    i, filtered_issues, comments, processed_issues,
                    pr_queried, pr_linked, comment_calls, analysed, full_pages
                    >>

\* Unrecoverable answers to a comment request: 403 without the rate-limit
\* signal, another error status, a transport exception.
CommentErrors == {"forbidden", "http_error", "exception"}

\* An extract_comments that drops what it has fetched when an error occurs.
CommentsDroppedAfterError(acc) == << >>

\* break, then "return comments": what extract_comments returns after an error.
CommentsAfterError(acc) == acc

\* An extract_comments that ends the process on an unrecoverable answer, as
\* the script's fetch_issues does.
ExtractCommentsErrorFatal(kind) ==
    /\ pc = "extract_comments"
    /\ reqs' = Append(reqs, Request("comments", issues[i].number,
                                    Len(comments), kind, 0, "none", 0))
    /\ pc' = "exit"
    /\ UNCHANGED << sleeps, prog, duplicates, inconsistencies, unaddressed,
                    categories, open_only, no_pr, no_comments, page, issues,
                    i, filtered_issues, comments, processed_issues, now,
                    rate_limits, pr_queried, pr_linked, comment_calls,
                    analysed, full_pages >>

\* An unrecoverable answer: the loop breaks and main goes on.
ExtractCommentsError(kind) ==
    /\ pc = "extract_comments"
    /\ reqs' = Append(reqs, Request("comments", issues[i].number,
                                    Len(comments), kind, 0, "none", 0))
    /\ AppendProcessed(CommentsAfterError(comments))
    /\ UNCHANGED << prog, duplicates, inconsistencies, unaddressed,
                    categories, open_only, no_pr, no_comments, page, issues,
                    filtered_issues, rate_limits, pr_queried, pr_linked,
                    comment_calls, analysed, full_pages >>

\* 200 with a body that is not JSON: caught as a RequestException with
\* requests >= 2.27 (break), a plain ValueError that escapes before.
ExtractCommentsBadJson(caught) ==
    /\ pc = "extract_comments"
    /\ reqs' = Append(reqs, Request("comments", issues[i].number,
                                    Len(comments), "bad_json", 0, "none", 0))
    /\ IF caught
       THEN AppendProcessed(CommentsAfterError(comments))
       ELSE /\ pc' = "crash"
            /\ UNCHANGED << comments, processed_issues, i, now, sleeps >>
    /\ UNCHANGED << prog, duplicates, inconsistencies, unaddressed,
                    categories, open_only, no_pr, no_comments, page, issues,
                    filtered_issues, rate_limits, pr_queried, pr_linked,
                    comment_calls, analysed, full_pages >>

ExtractComments ==
    \/ \E n \in PageSizes : ExtractCommentsPage(n)
    \/ \E d \in ResetOffsets : ExtractCommentsRateLimited(d)
    \/ \E kind \in CommentErrors : ExtractCommentsError(kind)
    \/ \E caught \in BOOLEAN : ExtractCommentsBadJson(caught)

-----------------------------------------------------------------------------

Next ==
    \/ FetchIssues
    \/ MainAfterFetch
    \/ \E resp \in SearchResponses, total_count \in {0, 1}, d \in ResetOffsets :
          CheckIssueHasPr(resp, total_count, d)
    \/ FilterDone
    \/ ProcessIssue
    \/ ExtractComments
    \/ DetectDuplicates
    \/ DetectInconsistencies
    \/ \E tick \in ClockSteps : DetectUnaddressedErrors(tick)
    \/ CategorizeIssues
    \/ Report

Spec == Init /\ [][Next]_vars

-----------------------------------------------------------------------------
(* The analyses on their own: main has ended its processing loop with a list
   of issues, drawn from the issues below, and runs the four analyses and the
   report. *)

\* Texts of issues: titles.
FixLoginBug ==
    << "F", "i", "x", " ", "l", "o", "g", "i", "n", " ", "b", "u", "g" >>
FixLoginBugBang ==
    << "f", "i", "x", " ", "l", "o", "g", "i", "n", " ", "b", "u", "g",
       "!" >>
FixLoginBugCaps ==
    << "F", "i", "x", " ", "L", "o", "g", "i", "n", " ", "B", "u", "g" >>
Unrelated == << "U", "n", "r", "e", "l", "a", "t", "e", "d" >>
FixLoginBugSpaced ==
    << "f", "i", "x", " ", " ", "l", "o", "g", "i", "n", "\t", "b", "u",
       "g", " " >>
FixHyphenLoginBug ==
    << "f", "i", "x", "-", "l", "o", "g", "i", "n", " ", "b", "u", "g" >>
FixUnderscoreLoginBug ==
    << "F", "i", "x", "_", "l", "o", "g", "i", "n", " ", "b", "u", "g" >>
Punctuation == << "?", "!" >>
UpdateReadme ==
    << "U", "p", "d", "a", "t", "e", " ", "R", "E", "A", "D", "M", "E" >>
AppCrashes == << "A", "p", "p", " ", "C", "R", "A", "S", "H", "E", "S" >>
SyntaxHighlighting ==
    << "S", "y", "n", "t", "a", "x", " ", "h", "i", "g", "h", "l", "i", "g",
       "h", "t", "i", "n", "g" >>

\* And bodies.
StackTraceCompileError ==
    << "S", "t", "a", "c", "k", " ", "t", "r", "a", "c", "e", " ", "a", "t",
       "t", "a", "c", "h", "e", "d", ",", " ", "c", "o", "m", "p", "i", "l",
       "e", " ", "e", "r", "r", "o", "r" >>
StackTraceCompile ==
    << "S", "t", "a", "c", "k", " ", "t", "r", "a", "c", "e", " ", "a", "t",
       "t", "a", "c", "h", "e", "d", ",", " ", "d", "o", "e", "s", " ", "n",
       "o", "t", " ", "c", "o", "m", "p", "i", "l", "e" >>
SeeDocumentation ==
    << "S", "e", "e", " ", "t", "h", "e", " ", "D", "o", "c", "u", "m", "e",
       "n", "t", "a", "t", "i", "o", "n" >>
NotWorkingSpaced ==
    << "N", "o", "t", " ", " ", "w", "o", "r", "k", "i", "n", "g" >>

\* And label names other than bug, feature, documentation.
Bugfix == << "b", "u", "g", "f", "i", "x" >>
Features == << "f", "e", "a", "t", "u", "r", "e", "s" >>
BugCaps == << "B", "U", "G" >>
FeatureCaps == << "F", "e", "a", "t", "u", "r", "e" >>

\* The labels field of an issue with the label names given.
Labels(names) == [k \in 1..Len(names) |-> [name |-> names[k]]]

\* An issue of the listing, without its number.
Sample(title, body, names, issue_state, date, time) ==
    [title |-> title, body |-> body, labels |-> Labels(names),
     state |-> issue_state, created_at |-> [date |-> date, time |-> time]]

\* Issues that differ in their titles.
TitleSamples ==
    {Sample(title, None, << >>, "closed", -1, 0) :
        title \in {FixLoginBug, FixLoginBugBang, FixLoginBugCaps, Unrelated,
                   FixLoginBugSpaced, FixHyphenLoginBug,
                   FixUnderscoreLoginBug, Punctuation, << >>}}

\* Issues that differ in their labels.
LabelSamples ==
    {Sample(Unrelated, None, names, "closed", -1, 0) :
        names \in {<< bug >>, << bug, feature >>, << FeatureCaps, BugCaps >>,
                   << feature >>, << documentation >>, << Bugfix, Features >>}}

\* Issues that differ in state and age: created 365 days, 366 days less one
\* second, 366 days, 367 days less one second before the epoch of the clock.
AgeSamples ==
    {Sample(Unrelated, None, << >>, "open", -365, 0),
     Sample(Unrelated, None, << >>, "open", -366, 1),
     Sample(Unrelated, None, << >>, "open", -366, 0),
     Sample(Unrelated, None, << >>, "open", -367, 1),
     Sample(Unrelated, None, << >>, "closed", -366, 0),
     Sample(Unrelated, None, << >>, "closed", -367, 1)}

\* Issues that differ in the keywords of their title and body.
TextSamples ==
    {Sample(Unrelated, None, << documentation >>, "closed", -1, 0),
     Sample(Unrelated, StackTraceCompileError, << >>, "closed", -1, 0),
     Sample(Unrelated, StackTraceCompile, << >>, "closed", -1, 0),
     Sample(UpdateReadme, None, << >>, "closed", -1, 0),
     Sample(Unrelated, SeeDocumentation, << >>, "closed", -1, 0),
     Sample(AppCrashes, << >>, << >>, "closed", -1, 0),
     Sample(SyntaxHighlighting, None, << >>, "closed", -1, 0),
     Sample(Unrelated, NotWorkingSpaced, << >>, "closed", -1, 0)}

\* The listings of up to MaxIssues issues are drawn from one of these.
SampleFamilies == {TitleSamples, LabelSamples, AgeSamples, TextSamples}

\* The list of issues fetch_issues returns for a listing of the given issues.
Listing(samples) ==
    [k \in 1..Len(samples) |-> [number |-> 10 * k] @@ samples[k]]

\* The issue with a title and nothing else of note.
Titled(title) == Sample(title, None, << >>, "closed", -1, 0)

\* Three titles that differ in case and punctuation, and an unrelated one.
SimilarTitles ==
    Listing(<< Titled(FixLoginBug), Titled(FixLoginBugBang),
               Titled(FixLoginBugCaps), Titled(Unrelated) >>)

\* Three titles, each twice, interleaved.
InterleavedTitles ==
    Listing(<< Titled(Unrelated), Titled(FixLoginBug), Titled(Punctuation),
               Titled(Unrelated), Titled(FixLoginBugSpaced), Titled(<< >>) >>)

\* Issues of every kind.
MixedIssues ==
    Listing(<< Sample(Unrelated, None, << bug, feature >>, "open", -366, 0),
               Sample(UpdateReadme, StackTraceCompileError, << >>, "closed", -367, 1),
               Titled(FixLoginBug),
               Sample(FixLoginBugBang, SeeDocumentation, << FeatureCaps, BugCaps >>,
                      "open", -367, 1),
               Sample(Unrelated, NotWorkingSpaced, << feature >>, "open", -365, 0) >>)

\* Listings that do not come from one family.
LongListings == {SimilarTitles, InterleavedTitles, MixedIssues}

\* What the clock reads, in ticks, when main comes to the analyses.
ClockReadings == {0, TicksPerSecond - 1}

AnalysisInit ==
    /\ prog \in {"script", "package"}
    /\ open_only = FALSE
    /\ no_pr = FALSE
    /\ no_comments = (prog = "package")
    /\ pc = "process"
    /\ page = 1
    /\ issues \in LongListings
                  \cup UNION {{Listing(samples) : samples \in [1..n -> family]} :
                              n \in 1..MaxIssues, family \in SampleFamilies}
    /\ i = Len(issues) + 1
    /\ filtered_issues = << >>
    /\ comments = << >>
    /\ processed_issues = [k \in 1..Len(issues) |->
                              [number |-> issues[k].number, comments_count |-> 0]]
    /\ now \in ClockReadings
    /\ reqs = << >>
    /\ rate_limits = 0
    /\ full_pages = 0
    /\ pr_queried = << >>
    /\ pr_linked = {}
    /\ comment_calls = IF no_comments THEN << >> ELSE Numbers(issues)
    /\ analysed = << >>
    /\ sleeps = << >>
    /\ duplicates = << >>
    /\ inconsistencies = << >>
    /\ unaddressed = << >>
    /\ categories = << >>

AnalysisNext ==
    \/ DetectDuplicates
    \/ DetectInconsistencies
    \/ \E tick \in ClockSteps : DetectUnaddressedErrors(tick)
    \/ CategorizeIssues
    \/ Report

AnalysisSpec == AnalysisInit /\ [][AnalysisNext]_vars

-----------------------------------------------------------------------------
(* What the log of the running call says *)

\* The records the source served in answer to request r.
PageOf(r) ==
    IF r.resp # "ok" THEN << >>
    ELSE IF r.kind = "issues" THEN PageRecords(r.page, r.records, r.pattern)
    ELSE CommentRecords(r.number, r.page, r.records)

RECURSIVE PagesUpTo(_, _)
\* The concatenation, in request order, of the pages served to log[1..k].
PagesUpTo(log, k) ==
    IF k = 0 THEN << >> ELSE PagesUpTo(log, k - 1) \o PageOf(log[k])

AllPages(log) == PagesUpTo(log, Len(log))

\* No request of the log got an error or a rate-limit answer.
AllOk(log) == \A k \in 1..Len(log) : log[k].resp = "ok"

\* The number of full pages the log holds.
FullPages(log) == Cardinality({k \in 1..Len(log) : log[k].records = per_page})

\* fetch_issues has returned to main, and reqs is its log.
IssueFetchReturned == pc = "fetched"

\* extract_comments has returned to main, and reqs is its log and comments
\* its result.
CommentFetchReturned ==
    /\ pc \in {"process", "done"} \cup AnalysisSteps
    /\ reqs # << >>
    /\ reqs[1].kind = "comments"

\* The log is N full pages followed by one page of fewer than per_page
\* records, requested as pages 1, 2, ..., N+1 in that order.
PaginatedToTheEnd(log) ==
    /\ Len(log) = FullPages(log) + 1
    /\ \A k \in 1..Len(log) : log[k].page = k
    /\ \A k \in 1..(Len(log) - 1) : log[k].records = per_page
    /\ log[Len(log)].records < per_page

-----------------------------------------------------------------------------
(* C1 *)

\* C1, as stated: when every page request of a fetch is answered with a page
\* (N full pages, then one of fewer than 100 records), the fetch issues exactly
\* N+1 requests, for pages 1..N+1 in order, and the accumulated records are the
\* concatenation of the pages' records.  (The issue listing is taken in the
\* package, whose loop accumulates into the list it returns; the script
\* accumulates every record and drops the pull requests after the loop.)
C1_AsClaimed ==
    /\ (IssueFetchReturned /\ AllOk(reqs) /\ prog = "package")
          => PaginatedToTheEnd(reqs) /\ issues = AllPages(reqs)
    /\ (CommentFetchReturned /\ AllOk(reqs))
          => PaginatedToTheEnd(reqs) /\ comments = AllPages(reqs)

\* C1, amended: under the same condition the fetch issues exactly N+1
\* requests, for pages 1..N+1 in order; a comment fetch returns the
\* concatenation of the pages' records in page order, and the issue fetch
\* returns that concatenation without the records that are pull requests.
C1_Pagination ==
    /\ (IssueFetchReturned /\ AllOk(reqs))
          => PaginatedToTheEnd(reqs)
             /\ issues = FilterPullRequests(AllPages(reqs))
    /\ (CommentFetchReturned /\ AllOk(reqs))
          => PaginatedToTheEnd(reqs) /\ comments = AllPages(reqs)

\* C1, witness: the package's issue fetch has returned after two full pages
\* and a partial third one, with pull requests dropped and issues kept.
C1_Witness ==
    /\ IssueFetchReturned /\ AllOk(reqs) /\ prog = "package"
    /\ Len(reqs) = 3
    /\ reqs[3].records = per_page - 1
    /\ issues # << >>
    /\ Len(issues) < Len(AllPages(reqs))

-----------------------------------------------------------------------------
(* C2, C3: rate-limit answers to the issue fetch and to a comment fetch *)

\* The fetch loops that handle a rate-limit answer.
LoopKinds == {"issues", "comments"}

\* The position of the run inside the loop that issues requests of a kind.
LoopOf(kind) == IF kind = "issues" THEN "fetch_issues" ELSE "extract_comments"

\* The length of the list the running loop accumulates.
Accumulated(kind) == IF kind = "issues" THEN Len(issues) ELSE Len(comments)

\* The rate-limit answers the log holds.
RateLimited(log) ==
    {k \in 1..Len(log) : log[k].kind \in LoopKinds /\ log[k].resp = "rate_limited"}

\* C2: after a rate-limit answer with reset time T the client issues its next
\* request no earlier than T+1 s, for the same page, with no record added:
\* either that request is in the log, or the loop is about to issue it.
C2_AsClaimed ==
    \A k \in RateLimited(reqs) :
        IF k < Len(reqs)
        THEN /\ reqs[k + 1].kind = reqs[k].kind
             /\ reqs[k + 1].number = reqs[k].number
             /\ reqs[k + 1].page = reqs[k].page
             /\ reqs[k + 1].acc = reqs[k].acc
             /\ reqs[k + 1].at >= (reqs[k].reset + 1) * TicksPerSecond
        ELSE /\ pc = LoopOf(reqs[k].kind)
             /\ page = reqs[k].page
             /\ Accumulated(reqs[k].kind) = reqs[k].acc
             /\ now >= (reqs[k].reset + 1) * TicksPerSecond

\* C3: a rate-limit answer never ends the fetch it was given to: the process
\* has not terminated, no exception has escaped and the fetch has not
\* returned; the loop is still running, on the page that was rate-limited.
C3_AsClaimed ==
    (/\ reqs # << >>
     /\ reqs[Len(reqs)].kind \in LoopKinds
     /\ reqs[Len(reqs)].resp = "rate_limited")
        => /\ pc \notin {"crash", "exit", "fetched", "no_issues", "process", "done"}
                        \cup AnalysisSteps
           /\ pc = LoopOf(reqs[Len(reqs)].kind)
           /\ page = reqs[Len(reqs)].page

-----------------------------------------------------------------------------
(* C4: unrecoverable answers to the issue fetch *)

\* Unrecoverable answers to an issue-listing request.
IssueErrors == {"forbidden", "http_error", "exception", "bad_json"}

\* C4: once a page request of the issue fetch got an unrecoverable answer the
\* run is over: main does not go on with an issue list (the PR-linkage checks,
\* the processing loop, the report), no comment fetch is made and nothing is
\* analysed.
C4_AsClaimed ==
    (/\ reqs # << >>
     /\ reqs[Len(reqs)].kind = "issues"
     /\ reqs[Len(reqs)].resp \in IssueErrors)
        => /\ pc \notin {"check_pr", "process", "extract_comments", "done"}
                        \cup AnalysisSteps
           /\ comment_calls = << >>
           /\ analysed = << >>

-----------------------------------------------------------------------------
(* C5: what extract_comments returns after an unrecoverable answer *)

\* extract_comments has returned because of an unrecoverable answer.
CommentFetchFailed ==
    /\ CommentFetchReturned
    /\ reqs[Len(reqs)].resp \in CommentErrors

-----------------------------------------------------------------------------
(* C6: a comment-fetch error is local to one issue *)

\* main is in, or past, its processing loop.
Processing == pc \in {"process", "extract_comments", "done"} \cup AnalysisSteps

-----------------------------------------------------------------------------
(* C7, C8: the flags of the package *)

\* C7: every issue-listing request carries state "open" if --open-only was
\* given and "all" otherwise, whatever --no-pr is.
C7_AsClaimed ==
    \A k \in 1..Len(reqs) :
        reqs[k].kind = "issues"
            => reqs[k].state = (IF open_only THEN "open" ELSE "all")

\* C8: with --no-pr every issue that is commented, analysed and reported had a
\* PR-linkage query and none reported a pull request for it; without --no-pr
\* no linkage query is made.
C8_AsClaimed ==
    /\ (no_pr /\ Processing)
          => \A k \in 1..Len(issues) :
                /\ issues[k].number \in Range(pr_queried)
                /\ issues[k].number \notin pr_linked
    /\ ~no_pr => pr_queried = << >>

-----------------------------------------------------------------------------
(* C9, C10: the PR-linkage check *)

\* Answers to a linkage search that are failures of the call.
SearchFailures == SearchResponses \ {"ok"}

NotLinked(issue) == issue.number \notin pr_linked

\* The last request of the log is a linkage search that failed.
SearchFailed ==
    /\ reqs # << >>
    /\ reqs[Len(reqs)].kind = "search"
    /\ reqs[Len(reqs)].resp \in SearchFailures

\* C9: a linkage search that fails counts as "no linked PR": the issue is
\* retained, the run goes on and the following issues are still checked.  In
\* the filter loop every issue before the current one has been queried, and
\* the retained ones are exactly those no search reported a pull request for.
C9_FailedCheckRetains ==
    /\ pc = "check_pr"
          => /\ i - 1 <= Len(issues)
             /\ pr_queried = Numbers(SubSeq(issues, 1, i - 1))
             /\ filtered_issues = SelectSeq(SubSeq(issues, 1, i - 1), NotLinked)
    /\ SearchFailed
          => /\ pc \in {"check_pr", "process", "extract_comments", "done"}
                      \cup AnalysisSteps
             /\ reqs[Len(reqs)].number \notin pr_linked
             /\ reqs[Len(reqs)].number
                   \in Range(Numbers(IF pc = "check_pr" THEN filtered_issues
                                                         ELSE issues))
    /\ (Processing /\ prog = "package" /\ no_pr /\ ~open_only)
          => /\ Len(pr_queried) = Len(issues) + Cardinality(pr_linked)
             /\ \A k \in 1..Len(issues) : issues[k].number \in Range(pr_queried)

\* C9, witness: the search for the first of two issues raised an exception;
\* the issue is retained and the loop is at the second issue.
C9_Witness ==
    /\ SearchFailed
    /\ reqs[Len(reqs)].resp = "exception"
    /\ pc = "check_pr"
    /\ Len(issues) = 2
    /\ i = 2
    /\ filtered_issues = << issues[1] >>

\* C10: after a rate-limit answer to the linkage search for an issue the
\* client waits until the reset time + 1 s and repeats the search for the same
\* issue: the issue is still the current one of the filter loop and no result
\* has been recorded for it.
C10_AsClaimed ==
    (/\ reqs # << >>
     /\ reqs[Len(reqs)].kind = "search"
     /\ reqs[Len(reqs)].resp = "rate_limited")
        => /\ pc = "check_pr"
           /\ i <= Len(issues)
           /\ issues[i].number = reqs[Len(reqs)].number
           /\ reqs[Len(reqs)].number \notin Range(Numbers(filtered_issues))
           /\ now >= (reqs[Len(reqs)].reset + 1) * TicksPerSecond

-----------------------------------------------------------------------------
(* C11: the issue fetch drops exactly the pull-request records *)

\* The positions, in fetch order, of the served records that are issues.
IssuesServed(pages) == {k \in 1..Len(pages) : ~IsPullRequest(pages[k])}

\* The n-th position, in increasing order, of a set of positions.
NthOf(positions, n) ==
    CHOOSE p \in positions : Cardinality({q \in positions : q <= p}) = n

\* C11: whatever pages were fetched, and however the loop ended, the list the
\* issue fetch returns holds no record with the pull-request marker, and holds
\* every fetched record without the marker exactly once, in fetch order.
C11_DropsExactlyPullRequests ==
    IssueFetchReturned
        => LET pages == AllPages(reqs)
               kept == IssuesServed(pages)
           IN  /\ \A k \in 1..Len(issues) : ~IsPullRequest(issues[k])
               /\ Len(issues) = Cardinality(kept)
               /\ \A k \in 1..Len(issues) : issues[k] = pages[NthOf(kept, k)]

\* C11, witness: the script's issue fetch has returned two issues out of a
\* full page and a partial one that held pull requests as well.
C11_Witness ==
    /\ IssueFetchReturned
    /\ prog = "script"
    /\ Len(reqs) = 2
    /\ reqs[2].resp = "ok"
    /\ Len(issues) = 2
    /\ Len(AllPages(reqs)) = 2 * per_page - 1
    /\ issues[2].number > per_page

-----------------------------------------------------------------------------
(* C12: duplicate detection *)

\* detect_duplicates has returned, and duplicates is its result.
DuplicatesDetected == pc \in AnalysisSteps \cup {"done"}

\* The normalized title of the k-th issue: lowercased, every character that is
\* neither a word character nor white space removed, runs of white space
\* collapsed and trimmed.
NormalizedTitle(k) == simplified(issues[k].title)

\* The positions of the issues with a normalized title.
TitledAs(title) == {k \in 1..Len(issues) : NormalizedTitle(k) = title}

\* The first position of a non-empty set of positions.
First(positions) == CHOOSE p \in positions : \A q \in positions : p <= q

\* The issue numbers at a set of positions, in input order.
NumbersAt(positions) ==
    [n \in 1..Cardinality(positions) |-> issues[NthOf(positions, n)].number]

\* C12: the result holds one group for each normalized title shared by at
\* least 2 issues; a group lists the numbers of all issues with its title, in
\* input order; groups are in order of the first occurrence of their title; an
\* issue with a unique normalized title is in no group and no issue is in two
\* groups.  "Fix login bug", "fix login bug!" and "Fix Login Bug" are one
\* group, and "Unrelated" is in none.
C12_DuplicateGroups ==
    DuplicatesDetected
        => /\ {duplicates[g].title : g \in 1..Len(duplicates)}
                 = {NormalizedTitle(k) : k \in {j \in 1..Len(issues) :
                                                  Cardinality(TitledAs(NormalizedTitle(j))) >= 2}}
           /\ \A g, h \in 1..Len(duplicates) :
                 g < h => /\ duplicates[g].title # duplicates[h].title
                          /\ First(TitledAs(duplicates[g].title))
                                < First(TitledAs(duplicates[h].title))
           /\ \A g \in 1..Len(duplicates) :
                 duplicates[g].issues = NumbersAt(TitledAs(duplicates[g].title))
           /\ \A k \in 1..Len(issues) :
                 Cardinality({g \in 1..Len(duplicates) :
                                 In(issues[k].number, duplicates[g].issues)})
                    = IF Cardinality(TitledAs(NormalizedTitle(k))) >= 2 THEN 1 ELSE 0
           /\ issues = SimilarTitles
                 => /\ Len(duplicates) = 1
                    /\ duplicates[1].issues = << 10, 20, 30 >>
                    /\ duplicates[1].title = SubSeq(FixLoginBugBang, 1, 13)

\* C12, witness: three titles, each given twice in different spellings and
\* interleaved, have been grouped.
C12_Witness ==
    /\ DuplicatesDetected
    /\ issues = InterleavedTitles
    /\ Len(duplicates) = 3
    /\ duplicates[2].issues = << 20, 50 >>
    /\ duplicates[3].title = << >>

-----------------------------------------------------------------------------
(* C13: inconsistency detection *)

\* detect_inconsistencies has returned, and inconsistencies is its result.
InconsistenciesDetected == pc \in (AnalysisSteps \cup {"done"}) \ {"detect_inconsistencies"}

\* The label names of the k-th issue, in lower case.
LabelNames(k) == {lower(label.name) : label \in Range(issues[k].labels)}

\* The entries of a result list (of records with a field issue) that report
\* the k-th issue.
EntriesFor(result, k) ==
    {e \in 1..Len(result) : result[e].issue = issues[k].number}

\* C13: an issue is flagged for conflicting labels if and only if its labels,
\* case aside, include both "bug" and "feature"; a flagged issue is reported
\* exactly once, one with only "bug", only "feature" or neither never.
C13_ConflictingLabels ==
    InconsistenciesDetected
        => /\ \A k \in 1..Len(issues) :
                 Cardinality(EntriesFor(inconsistencies, k))
                    = IF {bug, feature} \subseteq LabelNames(k) THEN 1 ELSE 0
           /\ \A e \in 1..Len(inconsistencies) :
                 \E k \in 1..Len(issues) : e \in EntriesFor(inconsistencies, k)
           /\ \A k \in 1..Len(issues) :
                 /\ issues[k].labels \in {Labels(<< bug, feature >>),
                                          Labels(<< FeatureCaps, BugCaps >>)}
                       => EntriesFor(inconsistencies, k) # {}
                 /\ issues[k].labels \in {Labels(<< bug >>), Labels(<< feature >>),
                                          Labels(<< Bugfix, Features >>), << >>}
                       => EntriesFor(inconsistencies, k) = {}

\* C13, witness: of an issue labelled "bug" and one labelled "Feature" and
\* "BUG", the second alone has been flagged.
C13_Witness ==
    /\ InconsistenciesDetected
    /\ Len(issues) = 2
    /\ issues[1].labels = Labels(<< bug >>)
    /\ issues[2].labels = Labels(<< FeatureCaps, BugCaps >>)
    /\ Len(inconsistencies) = 1
    /\ inconsistencies[1].issue = issues[2].number

-----------------------------------------------------------------------------
(* C14: staleness *)

\* detect_unaddressed_errors has returned, and unaddressed is its result.
UnaddressedDetected == pc \in {"categorize_issues", "report", "done"}

\* The age in whole days, when the clock reads utcnow, of the k-th issue.
AgeInDays(k, utcnow) == days(utcnow - strptime(issues[k].created_at))

IsOpen(k) == issues[k].state = "open"

\* The age an entry of the result reports.
ReportedAge(entry) ==
    IF prog = "script" THEN entry.age_days ELSE entry.days_open

\* C14: an issue is flagged as stale if and only if it is open and its age in
\* whole days (the floor of the current UTC time less created_at) is greater
\* than 365, and the age reported is that age in whole days.  The current time
\* is what the clock reads when the source reads it: in a call of
\* detect_unaddressed_errors that runs from now to now', an issue older than
\* 365 whole days at now is flagged, one that is closed or not older than 365
\* whole days at now' is not, a flagged issue is reported once, with its age in
\* whole days at a reading of the clock between now and now'.
C14_Staleness ==
    [][pc = "detect_unaddressed_errors"
          => \A k \in 1..Len(issues) :
                LET entries == {e \in 1..Len(unaddressed') :
                                   unaddressed'[e].issue = issues[k].number}
                IN  /\ Cardinality(entries) <= 1
                    /\ (IsOpen(k) /\ AgeInDays(k, now) > 365) => entries # {}
                    /\ (~IsOpen(k) \/ AgeInDays(k, now') <= 365) => entries = {}
                    /\ \A e \in entries :
                          /\ ReportedAge(unaddressed'[e]) > 365
                          /\ \E utcnow \in now..now' :
                                ReportedAge(unaddressed'[e]) = AgeInDays(k, utcnow)]_vars

\* C14, witness: of two open issues, one created exactly 366 days and one
\* exactly 365 days before the time the clock reads, the first alone has been
\* flagged, with an age of 366 days.
C14_Witness ==
    /\ UnaddressedDetected
    /\ now = 0
    /\ Len(issues) = 2
    /\ IsOpen(1) /\ issues[1].created_at = [date |-> -366, time |-> 0]
    /\ IsOpen(2) /\ issues[2].created_at = [date |-> -365, time |-> 0]
    /\ Len(unaddressed) = 1
    /\ unaddressed[1].issue = issues[1].number
    /\ ReportedAge(unaddressed[1]) = 366

-----------------------------------------------------------------------------
(* C15, C16: categorization *)

\* categorize_issues has returned, and categories is its result.
Categorized == pc \in {"report", "done"}

\* The title or body of the k-th issue with case folded; empty if there is none.
Folded(k, key) ==
    IF issues[k][key] = None THEN << >> ELSE lower(issues[k][key])

\* A keyword of the set is a substring of the folded title or body.
Mentions(k, keywords) ==
    \E keyword \in Range(keywords) :
        \/ Contains(keyword, Folded(k, "title"))
        \/ Contains(keyword, Folded(k, "body"))

\* How many times a list of numbers holds the number of the k-th issue.
Listed(k, numbers) ==
    Cardinality({n \in 1..Len(numbers) : numbers[n] = issues[k].number})

\* C15: an issue is listed under bugs iff it has the label "bug" (case aside)
\* or its folded title or body contains one of the bug keywords; under
\* documentation iff it has the label "documentation" or its title or body
\* contains one of the documentation keywords; under coding_errors iff its
\* title or body contains one of the coding keywords.  The three are decided
\* independently and an issue is listed at most once in a category.
C15_Categories ==
    Categorized
        => /\ \A k \in 1..Len(issues) :
                 /\ Listed(k, categories.bugs)
                       = IF bug \in LabelNames(k) \/ Mentions(k, bug_keywords)
                         THEN 1 ELSE 0
                 /\ Listed(k, categories.documentation)
                       = IF documentation \in LabelNames(k) \/ Mentions(k, doc_keywords)
                         THEN 1 ELSE 0
                 /\ Listed(k, categories.coding_errors)
                       = IF Mentions(k, coding_keywords) THEN 1 ELSE 0
           /\ \A k \in 1..Len(issues) :
                 /\ issues[k].title = AppCrashes => Listed(k, categories.bugs) = 1
                 /\ issues[k].title = FixLoginBugCaps => Listed(k, categories.bugs) = 1
                 /\ issues[k].labels = Labels(<< FeatureCaps, BugCaps >>)
                       => Listed(k, categories.bugs) = 1
                 /\ issues[k].body = SeeDocumentation
                       => Listed(k, categories.documentation) = 1
                 /\ issues[k].title = SyntaxHighlighting
                       => Listed(k, categories.coding_errors) = 1
                 /\ (/\ issues[k].title = Unrelated
                     /\ issues[k].body \in {None, NotWorkingSpaced}
                     /\ issues[k].labels \in {<< >>, Labels(<< Bugfix, Features >>),
                                              Labels(<< feature >>)})
                       => /\ Listed(k, categories.bugs) = 0
                          /\ Listed(k, categories.documentation) = 0
                          /\ Listed(k, categories.coding_errors) = 0

\* C15, witness: an issue labelled "documentation" and one titled
\* "App CRASHES" have been categorized, each in one category.
C15_Witness ==
    /\ Categorized
    /\ Len(issues) = 2
    /\ issues[1].labels = Labels(<< documentation >>)
    /\ issues[2].title = AppCrashes
    /\ categories = [bugs |-> << issues[2].number >>,
                     documentation |-> << issues[1].number >>,
                     coding_errors |-> << >>]

\* An issue with the given title and body and no label.
IsUnlabelled(k, title, body) ==
    /\ issues[k].title = title
    /\ issues[k].body = body
    /\ issues[k].labels = << >>

-----------------------------------------------------------------------------
(* C17: the analyses do not depend on the order of the issues *)

\* The lists that hold the issues of a list in some order.
Reordered(list) ==
    {[k \in 1..Len(list) |-> list[p[k]]] : p \in Permutations(1..Len(list))}

\* The groups of a result of detect_duplicates, each with the set of its members.
GroupSets(result) ==
    {[title |-> result[g].title, issues |-> Range(result[g].issues)] :
        g \in 1..Len(result)}

\* The issue numbers a result of detect_inconsistencies or of
\* detect_unaddressed_errors flags.
Flagged(result) == {result[e].issue : e \in 1..Len(result)}

\* The set of issue numbers in each category.
CategorySets(result) ==
    [bugs |-> Range(result.bugs),
     documentation |-> Range(result.documentation),
     coding_errors |-> Range(result.coding_errors)]

\* C17: the four passes are order-insensitive.  The step of each pass leaves
\* the issue list and the results of the other passes as they are, and its
\* result is, as a collection, what the pass gives for every reordering of the
\* list: the same groups with the same member sets for duplicate detection,
\* the same sets of issue numbers for inconsistency detection, for staleness
\* detection (when the clock reads the same throughout the call) and for each
\* category.
C17_OrderInsensitive ==
    [][/\ issues' = issues
       /\ (pc = "process" /\ pc' = "detect_inconsistencies")
             => /\ \A list \in Reordered(issues) :
                      GroupSets(detect_duplicates(list)) = GroupSets(duplicates')
                /\ UNCHANGED << inconsistencies, unaddressed, categories >>
       /\ pc = "detect_inconsistencies"
             => /\ \A list \in Reordered(issues) :
                      Flagged(detect_inconsistencies(list)) = Flagged(inconsistencies')
                /\ UNCHANGED << duplicates, unaddressed, categories >>
       /\ pc = "detect_unaddressed_errors"
             => /\ now' = now
                      => \A list \in Reordered(issues) :
                            Flagged(detect_unaddressed_errors(list, now, 0).unaddressed)
                               = Flagged(unaddressed')
                /\ UNCHANGED << duplicates, inconsistencies, categories >>
       /\ pc = "categorize_issues"
             => /\ \A list \in Reordered(issues) :
                      CategorySets(categorize_issues(list)) = CategorySets(categories')
                /\ UNCHANGED << duplicates, inconsistencies, unaddressed >>]_vars

\* C17, witness: the four passes have run on two issues that are duplicates
\* of each other, have conflicting labels, and are both bugs, so that every
\* result but one lists both and would list them in the other order for the
\* reordered list.
C17_Witness ==
    /\ pc = "report"
    /\ Len(issues) = 2
    /\ Len(duplicates) = 1
    /\ duplicates[1].issues = Numbers(issues)
    /\ Flagged(inconsistencies) = Range(Numbers(issues))
    /\ categories.bugs = Numbers(issues)
    /\ issues[1].labels # issues[2].labels

-----------------------------------------------------------------------------
(* C18: self-throttling of the fetch loops *)

\* reqs is the log of a fetch loop (of fetch_issues or of extract_comments).
LoopLog == reqs # << >> /\ reqs[1].kind \in LoopKinds

\* The answer to request r was a full page.
FullPage(r) == r.resp = "ok" /\ r.records = per_page

\* The sleeps a fetch loop made after its k-th request and before its next.
LoopSleepsAfter(k) ==
    {n \in 1..Len(sleeps) : sleeps[n].after = k /\ sleeps[n].where # "main"}

\* The fixed delay of the loops: time.sleep(0.5) in the script, time.sleep(0.1)
\* in the package.
FixedDelay == IF prog = "script" THEN (5 * TicksPerSecond) \div 10
                                 ELSE TicksPerSecond \div 10

\* C18: in a fetch loop, after a page request answered with a full page there
\* is exactly one sleep, of the fixed delay, before the request for the next
\* page, which is issued when it ends; after a request answered with the last
\* page, an error or a rate limit there is no throttle sleep.
C18_SelfThrottling ==
    LoopLog
        => /\ \A k \in 1..Len(reqs) :
                 IF FullPage(reqs[k])
                 THEN /\ \E n \in 1..Len(sleeps) :
                            /\ LoopSleepsAfter(k) = {n}
                            /\ sleeps[n].why = "throttle"
                            /\ sleeps[n].where = LoopOf(reqs[k].kind)
                            /\ sleeps[n].length = FixedDelay
                      /\ k < Len(reqs)
                            => /\ reqs[k + 1].page = reqs[k].page + 1
                               /\ reqs[k + 1].at = reqs[k].at + FixedDelay
                 ELSE \A n \in LoopSleepsAfter(k) : sleeps[n].why # "throttle"
           /\ \A n \in 1..Len(sleeps) :
                 sleeps[n].where # "main"
                    => /\ sleeps[n].after \in 1..Len(reqs)
                       /\ sleeps[n].where = LoopOf(reqs[1].kind)

\* C18, witness: a comment fetch of the script got a rate limit, then a full
\* page, then the last page: one throttle sleep, after the full page.
C18_Witness ==
    /\ CommentFetchReturned
    /\ prog = "script"
    /\ Len(reqs) = 3
    /\ reqs[1].resp = "rate_limited"
    /\ FullPage(reqs[2])
    /\ reqs[3].resp = "ok"
    /\ {n \in 1..Len(sleeps) : sleeps[n].why = "throttle" /\ sleeps[n].where # "main"}
          = {2}
    /\ sleeps[2].after = 2

-----------------------------------------------------------------------------
(* C19: the fetch loops stop *)

\* The wait, in seconds, that the loop computed for rate-limit answer r.
WaitOf(r) == r.reset - (r.at \div TicksPerSecond) + 1

\* After the answer to request r the loop goes on to another request: the
\* answer was a full page, or a rate limit (with a wait it can sleep for).
Continues(r) ==
    \/ FullPage(r)
    \/ r.resp = "rate_limited" /\ WaitOf(r) >= 0

\* C19, as stated: a fetch loop goes on after every full page and after every
\* rate-limit answer, on the same page and without an error, and stops after any
\* other answer.
C19_AsClaimed ==
    LoopLog
        => /\ \A k \in 1..(Len(reqs) - 1) :
                  FullPage(reqs[k]) \/ reqs[k].resp = "rate_limited"
           /\ (FullPage(reqs[Len(reqs)]) \/ reqs[Len(reqs)].resp = "rate_limited")
                  <=> pc = LoopOf(reqs[1].kind)
           /\ pc = LoopOf(reqs[1].kind) => page = 1 + FullPages(reqs)

\* C19: a fetch loop goes on only after a full page or a rate-limit answer; any
\* other answer ends it at once, with a return or with the end of the process.
\* So a loop has issued at most one request more than the full pages and the
\* rate-limit answers it got, and stops when the source has no more of either.
\* The page number is one more than the number of full pages got: a rate limit
\* keeps the loop on the same page, without an error, however many rate limits
\* came before.
C19_LoopsStop ==
    LoopLog
        => /\ \A k \in 1..(Len(reqs) - 1) : Continues(reqs[k])
           /\ Continues(reqs[Len(reqs)]) <=> pc = LoopOf(reqs[1].kind)
           /\ Len(reqs) <= FullPages(reqs) + Cardinality(RateLimited(reqs)) + 1
           /\ \A k \in 1..Len(reqs) :
                 /\ reqs[k].kind = reqs[1].kind
                 /\ reqs[k].page = 1 + FullPages(SubSeq(reqs, 1, k - 1))
           /\ pc = LoopOf(reqs[1].kind) => page = 1 + FullPages(reqs)

\* C19, witness: the issue fetch got a full page, then a rate limit on page 2,
\* then page 2 again, the last one, and has returned.
C19_Witness ==
    /\ IssueFetchReturned
    /\ Len(reqs) = 3
    /\ FullPage(reqs[1])
    /\ reqs[2].resp = "rate_limited"
    /\ reqs[2].page = 2
    /\ reqs[3].resp = "ok"
    /\ reqs[3].page = 2

-----------------------------------------------------------------------------
(* C20: the order of the pipeline *)

\* A step that issues a request of a kind.  A request and its answer are one
\* step: the calls block, so no other request is issued before the answer.
Requests(kind) ==
    /\ reqs' # reqs
    /\ reqs' # << >>
    /\ reqs'[Len(reqs')].kind = kind

\* A step of one of the four analyses.
AnalysisStep == pc' \in AnalysisSteps /\ pc' # pc

\* s is a list without repetitions.
NoRepeats(s) == Cardinality(Range(s)) = Len(s)

\* The order of the phases: a step issues at most one request; a request of
\* the issue listing is issued before any PR-linkage query and any comment
\* request; a PR-linkage query before any comment request; a comment request
\* is for the issue extract_comments was last called for, and the calls follow
\* the order of the issue list; the logs of queries and calls only grow; an
\* analysis step, and the report, issue no request and come after the calls of
\* extract_comments for all the issues analysed.  With exact, the issues
\* analysed are exactly those extract_comments was called for.
PipelineOrder(exact) ==
    /\ reqs' # reqs => \/ reqs' = << >>
                       \/ Len(reqs') = 1
                       \/ reqs' = Append(reqs, reqs'[Len(reqs')])
    /\ Requests("issues")
          => /\ pr_queried' = << >>
             /\ comment_calls' = << >>
             /\ pc \notin AnalysisSteps \cup {"done"}
    /\ Requests("search")
          => /\ comment_calls' = << >>
             /\ pc \notin AnalysisSteps \cup {"done"}
    /\ Requests("comments")
          => /\ reqs'[Len(reqs')].number = comment_calls[Len(comment_calls)]
             /\ pc \notin AnalysisSteps \cup {"done"}
    /\ Len(pr_queried) <= Len(pr_queried')
    /\ pr_queried = SubSeq(pr_queried', 1, Len(pr_queried))
    /\ Len(comment_calls) <= Len(comment_calls')
    /\ comment_calls = SubSeq(comment_calls', 1, Len(comment_calls))
    /\ NoRepeats(comment_calls')
    /\ Len(comment_calls') <= Len(issues')
    /\ comment_calls' = SubSeq(Numbers(issues'), 1, Len(comment_calls'))
    /\ (AnalysisStep \/ pc' = "done")
          => /\ reqs' = reqs
             /\ issues' = issues
             /\ pc \notin {"fetch_issues", "fetched", "check_pr", "extract_comments"}
             /\ IF exact \/ ~(prog = "package" /\ no_comments)
                THEN comment_calls' = Numbers(issues')
                ELSE comment_calls' = << >>
    /\ pc' = "done" => analysed' = issues

\* C20, as stated: the phases are strictly ordered and the analyses run only
\* after the last comment fetch, on exactly the issue set for which comment
\* fetches were made.
C20_AsClaimed == [][PipelineOrder(TRUE)]_vars

\* C20, amended: the phases are strictly ordered and the analyses run only
\* after the last comment fetch, on the issue list main retained; that list is
\* exactly the issues for which comment fetches were made, in the same order,
\* unless --no-comments was given: then no comment fetch is made and the
\* analyses run on the retained list all the same.
C20_PipelineOrder == [][PipelineOrder(FALSE)]_vars

\* C20, witness: the package, with --no-pr, has listed the issues, queried the
\* PR linkage of two issues, fetched the comments of both and analysed them.
C20_Witness ==
    /\ pc = "done"
    /\ prog = "package"
    /\ Len(pr_queried) = 2
    /\ comment_calls = pr_queried
    /\ Len(analysed) = 2
    /\ Len(duplicates) = 1

-----------------------------------------------------------------------------
(* C21: HTTP 422 in the script's issue fetch *)

\* The last request of the log is a page request of the script's issue fetch
\* that was answered with HTTP 422.  (The log keeps the status of an error
\* answer in the field reset.)
ScriptGot422(log) ==
    /\ prog = "script"
    /\ log # << >>
    /\ log[Len(log)].kind = "issues"
    /\ log[Len(log)].resp = "http_error"
    /\ log[Len(log)].reset = 422

\* fetch_issues in the script, answered with 422: the loop has stopped without
\* ending the process, and the list returned is the records of the pages
\* fetched before, without the pull requests; main then takes the list as it
\* takes any other: "no issues" if it is empty, the processing loop from the
\* first issue otherwise.
EndOfPaginationOn422 ==
    /\ ScriptGot422(reqs')
          => /\ pc' \in {"fetched", "no_issues", "process"}
             /\ issues' = FilterPullRequests(AllPages(reqs'))
             /\ Len(AllPages(reqs')) = (reqs'[Len(reqs')].page - 1) * per_page
             /\ comment_calls' = << >>
    /\ (ScriptGot422(reqs) /\ pc = "fetched")
          => /\ pc' = IF issues = << >> THEN "no_issues" ELSE "process"
             /\ i' = 1
             /\ issues' = issues
    /\ (ScriptGot422(reqs) /\ pc = "process")
          => /\ pc' = "extract_comments"
             /\ comment_calls' = << issues[1].number >>

\* C21: in the script's issue fetch an HTTP 422 answer on any page is the end
\* of pagination and not a fatal error: the loop stops, the issues of the
\* earlier pages are returned after pull-request filtering and main processes
\* them as after any other fetch.
C21_EndOfPaginationOn422 == [][EndOfPaginationOn422]_vars

\* C21, witness: the script got a full page and then 422 on page 2; two issues
\* were returned and the processing loop is at the first of them.
C21_Witness ==
    /\ ScriptGot422(reqs)
    /\ reqs[Len(reqs)].page = 2
    /\ pc = "process"
    /\ i = 1
    /\ Len(issues) = 2
    /\ Len(AllPages(reqs)) = per_page

-----------------------------------------------------------------------------
(* C22: --no-comments *)

\* Every request of the log is a comment request for the issue of that number.
CommentLogOf(log, number) ==
    /\ log # << >>
    /\ \A k \in 1..Len(log) : log[k].kind = "comments" /\ log[k].number = number

\* With --no-comments no step issues a comment request or calls
\* extract_comments, and every entry of processed_issues has comments_count 0.
\* A step that adds an issue to processed_issues adds the current issue, after
\* the entries already there; without --no-comments the step is the return of
\* the comment fetch of that issue, and the entry's comments_count is the
\* length of the list the fetch returned: the records of the pages it got.
CommentSkipping ==
    /\ no_comments'
          => /\ ~Requests("comments")
             /\ \A k \in 1..Len(reqs') : reqs'[k].kind # "comments"
             /\ pc' # "extract_comments"
             /\ comment_calls' = << >>
             /\ \A k \in 1..Len(processed_issues') :
                   processed_issues'[k].comments_count = 0
    /\ processed_issues' # processed_issues
          => /\ i <= Len(issues)
             /\ Len(processed_issues') = Len(processed_issues) + 1
             /\ SubSeq(processed_issues', 1, Len(processed_issues)) = processed_issues
             /\ LET entry == processed_issues'[Len(processed_issues')]
                IN  /\ entry.number = issues[i].number
                    /\ ~no_comments
                          => /\ pc = "extract_comments"
                             /\ CommentLogOf(reqs', entry.number)
                             /\ comment_calls[Len(comment_calls)] = entry.number
                             /\ comments' = AllPages(reqs')
                             /\ entry.comments_count = Len(comments')

\* C22: with --no-comments no request to a comment endpoint is issued during
\* the run and every processed issue has comments_count 0; without it the
\* comments_count of each processed issue is the number of comment records its
\* comment fetch returned.
C22_CommentSkipping == [][CommentSkipping]_vars

\* C22, witness: the package has run with --no-comments to the end over two
\* issues, both processed with comments_count 0, with no call of
\* extract_comments.
C22_Witness ==
    /\ prog = "package"
    /\ no_comments
    /\ pc = "done"
    /\ Len(issues) = 2
    /\ Len(processed_issues) = 2
    /\ processed_issues[2].comments_count = 0
    /\ comment_calls = << >>

-----------------------------------------------------------------------------
(* C23: what a fetch loop has accumulated *)

\* The positions of the log of the requests for page q that got a page.
OkFor(log, q) == {k \in 1..Len(log) : log[k].resp = "ok" /\ log[k].page = q}

RECURSIVE PagesBefore(_, _)
\* The records of pages 1..p-1, in page order, each page as it was served.
PagesBefore(log, p) ==
    IF p <= 1 THEN << >>
    ELSE PagesBefore(log, p - 1)
            \o PageOf(log[CHOOSE k \in OkFor(log, p - 1) : TRUE])

\* The positions of the run at the head of a fetch loop.
FetchLoops == {"fetch_issues", "extract_comments"}

\* At the head of a fetch loop with page counter p: each of the pages 1..p-1
\* was served exactly once, as a full page, every other request got a
\* rate-limit answer and no record, and the list accumulated is the records of
\* the pages 1..p-1 in page order.  With raw, the list of every loop holds the
\* records as served; otherwise the package's fetch_issues holds them without
\* the pull requests, which it drops page by page.
Accumulates(raw) ==
    pc \in FetchLoops
        => /\ page >= 1
           /\ \A q \in 1..(page - 1) :
                 /\ Cardinality(OkFor(reqs, q)) = 1
                 /\ \A k \in OkFor(reqs, q) : reqs[k].records = per_page
           /\ \A k \in 1..Len(reqs) :
                 /\ reqs[k].page \in 1..page
                 /\ reqs[k].resp \in {"ok", "rate_limited"}
                 /\ reqs[k].page = page => reqs[k].resp = "rate_limited"
                 /\ reqs[k].acc = (reqs[k].page - 1) * per_page
                       \/ (~raw /\ prog = "package" /\ pc = "fetch_issues")
           /\ LET served == PagesBefore(reqs, page)
              IN  /\ served = AllPages(reqs)
                  /\ Len(served) = (page - 1) * per_page
                  /\ IF pc = "extract_comments" THEN comments = served
                     ELSE IF raw \/ prog = "script" THEN issues = served
                     ELSE issues = FilterPullRequests(served)

\* The page counter starts at 1 when a fetch is called, and a step of a fetch
\* loop changes it only by adding 1, after an answer with per_page records;
\* every such answer adds 1.
CounterStep ==
    /\ (pc = "process" /\ pc' = "extract_comments")
          => page' = 1 /\ comments' = << >> /\ reqs' = << >>
    /\ (pc \in FetchLoops /\ page' # page)
          => /\ page' = page + 1
             /\ pc' = pc
             /\ reqs' = Append(reqs, reqs'[Len(reqs')])
             /\ FullPage(reqs'[Len(reqs')])
    /\ (pc \in FetchLoops /\ reqs' # reqs /\ FullPage(reqs'[Len(reqs')]))
          => page' = page + 1
    /\ (pc \notin FetchLoops /\ pc' \in FetchLoops) => page' = 1

\* C23, as stated: at every point of every fetch loop the accumulated list is
\* the concatenation of the records of pages 1..p-1, each page once, p the
\* page counter; the counter starts at 1, never decreases and grows by 1 only
\* after an answer with exactly 100 records.
C23_AsClaimed == [][Accumulates(TRUE)' /\ CounterStep]_vars

\* C23, amended: as stated for the comment fetches and the script's issue
\* fetch; the package's issue fetch accumulates the records of pages 1..p-1
\* that are not pull requests, each once and in page order.
C23_Accumulation == [][Accumulates(FALSE)' /\ CounterStep]_vars

\* C23, witness: the package's issue fetch got a full page with pull requests
\* in it, then a rate limit on page 2, and is about to request page 2 again.
C23_Witness ==
    /\ pc = "fetch_issues"
    /\ prog = "package"
    /\ page = 2
    /\ Len(reqs) = 2
    /\ reqs[2].resp = "rate_limited"
    /\ Len(issues) = 2
    /\ Len(AllPages(reqs)) = per_page

-----------------------------------------------------------------------------
(* C24: the end-of-pagination test counts the records as served *)

\* The requests of the log that are page requests of the issue fetch and got
\* a page.
IssuePagesGot(log) ==
    {k \in 1..Len(log) : log[k].kind = "issues" /\ log[k].resp = "ok"}

\* The number of records of the page served to request r that are issues.
IssuesIn(r) == Len(FilterPullRequests(PageOf(r)))

\* C24: the issue fetch takes a page for the last one exactly when the source
\* served fewer than 100 records (or none), whatever number of them are pull
\* requests: after a page of fewer than 100 records no request follows, and
\* after a page of 100 records, even one of 100 pull requests, the next page
\* is requested (or the loop is about to request it).
C24_RawPageDecides ==
    \A k \in IssuePagesGot(reqs) :
        IF reqs[k].records < per_page
        THEN /\ k = Len(reqs)
             /\ pc # "fetch_issues"
        ELSE IF k < Len(reqs)
             THEN /\ reqs[k + 1].kind = "issues"
                  /\ reqs[k + 1].page = reqs[k].page + 1
             ELSE /\ pc = "fetch_issues"
                  /\ page = reqs[k].page + 1

\* C24, witness: page 1 of the issue listing held 100 pull requests and no
\* issue; page 2 was requested and its issues were returned.
C24_Witness ==
    /\ IssueFetchReturned
    /\ Len(reqs) = 2
    /\ IssuePagesGot(reqs) = {1, 2}
    /\ reqs[1].records = per_page
    /\ IssuesIn(reqs[1]) = 0
    /\ reqs[2].page = 2
    /\ Len(issues) = 2

-----------------------------------------------------------------------------
(* C25: the script and the package on the default path.  Both programs are
   runs of the one model; they are compared through what each does with the
   same answers and the same arguments: a result that is the same function of
   the log (or of the issue list) in the states of both programs is the same
   in both. *)

\* Runs of main from its start, and runs of the analyses on issues with
\* titles, bodies, labels, states and dates.
PipelineInit == Init \/ AnalysisInit

PipelineSpec == PipelineInit /\ [][Next]_vars

\* The log holds only pages and rate-limit answers.
DefaultPath(log) ==
    \A k \in 1..Len(log) : log[k].resp \in {"ok", "rate_limited"}

\* Every request of the log is for the page after the full pages got before it.
PagesRequested(log) ==
    \A k \in 1..Len(log) :
        /\ log[k].page = 1 + FullPages(SubSeq(log, 1, k - 1))
        /\ log[k].kind = log[1].kind
        /\ log[k].number = log[1].number
        /\ log[k].kind = "issues" => log[k].state = "all"

\* The fetches on the default path, fetch_issues without filters: the requests
\* and the list returned are given by the answers alone.
FetchesAgree ==
    /\ (pc \in FetchLoops /\ DefaultPath(reqs) /\ state = "all")
          => /\ PagesRequested(reqs)
             /\ page = 1 + FullPages(reqs)
    /\ (IssueFetchReturned /\ DefaultPath(reqs) /\ state = "all")
          => /\ PagesRequested(reqs)
             /\ reqs[Len(reqs)].resp = "ok"
             /\ issues = FilterPullRequests(AllPages(reqs))
    /\ (CommentFetchReturned /\ DefaultPath(reqs))
          => /\ PagesRequested(reqs)
             /\ reqs[Len(reqs)].resp = "ok"
             /\ comments = AllPages(reqs)

\* What the package's detect_inconsistencies returns for a list.
PackageInconsistencies(list) ==
    LET found == SelectSeq(list, HasConflictingLabels)
    IN  [k \in 1..Len(found) |->
            [issue |-> found[k].number,
             details |-> "Issue has both \"bug\" and \"feature\" labels"]]

\* What the package's detect_unaddressed_errors returns for a list when every
\* reading of the clock gives utcnow.
PackageUnaddressed(list, utcnow) ==
    LET IsStale(issue) ==
            /\ "state" \in DOMAIN issue
            /\ issue.state = "open"
            /\ "created_at" \in DOMAIN issue
            /\ days(utcnow - strptime(issue.created_at)) > 365
        found == SelectSeq(list, IsStale)
    IN  [k \in 1..Len(found) |->
            [issue |-> found[k].number,
             days_open |-> days(utcnow - strptime(found[k].created_at))]]

\* The entries of the script's results, in the package's form.
WithoutType(result) ==
    [k \in 1..Len(result) |->
        [issue |-> result[k].issue, details |-> result[k].details]]

AsDaysOpen(result) ==
    [k \in 1..Len(result) |->
        [issue |-> result[k].issue, days_open |-> result[k].age_days]]

\* The analyses of a list.  detect_duplicates and categorize_issues are the
\* same statements in both sources and one operator each in the model.  With
\* same, detect_inconsistencies and detect_unaddressed_errors return in both
\* programs what they return in the package; otherwise the script's entries
\* are the package's with a type added, and the age under age_days.  The clock
\* is an input of detect_unaddressed_errors: the results are compared for a
\* call during which it does not advance.  Each result is looked at on the
\* step that returns it.
AnalysesAgree(same) ==
    /\ duplicates' # duplicates => duplicates' = detect_duplicates(issues)
    /\ categories' # categories => categories' = categorize_issues(issues)
    /\ (pc = "detect_inconsistencies" /\ pc' # pc)
          => IF same \/ prog = "package"
             THEN inconsistencies' = PackageInconsistencies(issues')
             ELSE /\ WithoutType(inconsistencies') = PackageInconsistencies(issues')
                  /\ \A e \in 1..Len(inconsistencies') :
                        /\ DOMAIN inconsistencies'[e] = {"issue", "type", "details"}
                        /\ inconsistencies'[e].type = "conflicting_labels"
    /\ (pc = "detect_unaddressed_errors" /\ pc' = "categorize_issues" /\ now' = now)
          => IF same \/ prog = "package"
             THEN unaddressed' = PackageUnaddressed(issues, now)
             ELSE /\ AsDaysOpen(unaddressed') = PackageUnaddressed(issues, now)
                  /\ \A e \in 1..Len(unaddressed') :
                        /\ DOMAIN unaddressed'[e] = {"issue", "type", "age_days"}
                        /\ unaddressed'[e].type = "old_unaddressed"

\* C25, as stated: on the default path the two fetch_issues issue the same
\* page requests and return the same list, and the two extract_comments and
\* the four analyses of the two programs return the same results for the same
\* inputs.
C25_AsClaimed == [][FetchesAgree' /\ AnalysesAgree(TRUE)]_vars

\* C25, amended: on the default path the two fetch_issues, when they return,
\* have issued the same page requests and return the same list, and the two
\* extract_comments, detect_duplicates and categorize_issues return the same
\* results for the same inputs; detect_inconsistencies and
\* detect_unaddressed_errors report the same issues in both programs, the
\* script's entries with a further field type, and with the age under
\* age_days where the package has days_open.
C25_Equivalence == [][FetchesAgree' /\ AnalysesAgree(FALSE)]_vars

\* C25, witness: the script has analysed a list with two issues that have
\* conflicting labels and two that are stale, and has reported them.
C25_Witness ==
    /\ prog = "script"
    /\ pc = "done"
    /\ Len(inconsistencies) = 2
    /\ inconsistencies[1].type = "conflicting_labels"
    /\ Len(unaddressed) = 2
    /\ unaddressed[1].age_days = 366
    /\ Len(duplicates) = 2
    /\ categories.bugs # << >>

-----------------------------------------------------------------------------
(* C26: an empty issue list ends the run *)

\* Nothing of what main does with a list of issues has been done: no linkage
\* query, no call of extract_comments, no issue processed, no analysis, no
\* report; the only requests of the run are those of the issue fetch.
NothingDone ==
    /\ pr_queried = << >>
    /\ pr_linked = {}
    /\ comment_calls = << >>
    /\ processed_issues = << >>
    /\ duplicates = << >>
    /\ inconsistencies = << >>
    /\ unaddressed = << >>
    /\ categories = << >>
    /\ analysed = << >>
    /\ \A k \in 1..Len(reqs) : reqs[k].kind = "issues"

\* When fetch_issues has returned an empty list the one step main takes is to
\* its return after the "no issues" message; the run is at that return only
\* after an empty list, with nothing done, and takes no step from there.
ShortCircuit ==
    /\ (pc = "fetched" /\ issues = << >>) => pc' = "no_issues" /\ reqs' = reqs
    /\ (pc = "fetched" /\ issues # << >>) => pc' # "no_issues"
    /\ pc' = "no_issues"
          => /\ pc = "fetched"
             /\ issues' = << >>
             /\ FilterPullRequests(AllPages(reqs')) = << >>
             /\ NothingDone'
    /\ pc # "no_issues"

\* C26: if the issue fetch returns an empty list (no records, or only
\* pull-request records) the run ends after the "no issues" message: no
\* PR-linkage query and no comment request is issued, no analysis runs and no
\* report is made.
C26_ShortCircuit == [][ShortCircuit]_vars

\* C26, witness: the package, with --no-pr, got a full page and a partial one
\* that held pull requests only, and has ended with "no issues".
C26_Witness ==
    /\ pc = "no_issues"
    /\ prog = "package"
    /\ no_pr /\ ~open_only
    /\ Len(reqs) = 2
    /\ Len(AllPages(reqs)) = 2 * per_page - 1
    /\ NothingDone

=============================================================================
